---- MODULE Spec2Model ----
(***************************************************************************)
(* Expense tracker: the three Streamlit entry pages that save rows to the  *)
(* worksheets of the "Streamlit Database" spreadsheet, and the analytics   *)
(* page (pages/3_Analytics.py) that derives its metrics from them.         *)
(*                                                                         *)
(* Dates are day numbers, day 0 being Monday 2024-01-01.  A pandas         *)
(* Timestamp is a number of ticks, TicksPerDay ticks to the day, so that a *)
(* date parsed by pd.to_datetime is the tick of its midnight while         *)
(* pd.to_datetime("today") carries the time of day.  Money is in whole     *)
(* cedis; quotients are kept as exact fractions [num, den].                *)
(***************************************************************************)
EXTENDS Integers, Sequences, FiniteSets, TLC

VARIABLES
    sheets,     \* worksheet name -> rows below the header row
    sidebar,    \* the analytics page's sidebar widgets
    today,      \* the wall clock, in ticks
    view,       \* output of the analytics script while that page is shown
    float_bits, \* significand bits of the machine's floats; 0: arithmetic over the reals
    table_cache, \* st.cache_data of load_table: entries [name, age, df]
    data_cache, \* st.cache_data of load_data: entries [key, age, value]
    since_save, \* seconds since the last save, counted up to MaxIdle
    sessions,   \* browser session -> how far its save handler has run
    refresh     \* the auto-refresh checkbox and what started the latest run

vars == <<sheets, sidebar, today, view, float_bits, table_cache, data_cache, since_save,
          sessions, refresh>>

(***************************************************************************)
(* Bounds of the model.                                                    *)
(***************************************************************************)
MaxDay == 2          \* dates entered in the forms are 0..MaxDay
MaxRows == 2         \* rows a worksheet set is let grow to
TicksPerDay == 2     \* clock resolution: tick 0 of a day is its midnight

Days == 0..MaxDay

(***************************************************************************)
(* Worksheets and the rows the forms produce.                              *)
(***************************************************************************)
tables == {"daily_expenses", "daily_budget", "weekly_budget"}

\* st.number_input values typed into the Daily Entry form, as
\* <<transport, food, data, other>>
FormEntries == {<<0, 0, 0, 0>>, <<0, 10, 0, 0>>, <<0, 50, 0, 0>>, <<20, 0, 10, 15>>}

\* st.number_input values of the budget forms
FormBudgets == {50, 1000}

ExpenseRow(d, e) ==
    [expense_date |-> d, transport |-> e[1], food |-> e[2], data |-> e[3], other |-> e[4]]

ExpenseRows == {ExpenseRow(d, e) : d \in Days, e \in FormEntries}

WeeklyBudgetRow(d, b) ==
    [week_start |-> d, money_available |-> 0, weekly_budget |-> b, expected_income |-> 0]

DailyBudgetRow(d, b) == [budget_date |-> d, budget_amount |-> b]

RECURSIVE SumSeq(_)
SumSeq(s) == IF s = <<>> THEN 0 ELSE Head(s) + SumSeq(Tail(s))

RECURSIVE SumSet(_, _)
\* sum of f[x] over the finite set S
SumSet(f, S) ==
    IF S = {} THEN 0
    ELSE LET x == CHOOSE y \in S : TRUE IN f[x] + SumSet(f, S \ {x})

TotalRows(sh) == Len(sh["daily_expenses"]) + Len(sh["daily_budget"]) + Len(sh["weekly_budget"])

(***************************************************************************)
(* The save handlers.  All three pages run the same steps: read every row  *)
(* (an APIError on the read is caught and replaced by an empty frame),     *)
(* concatenate the new row, clear the worksheet, write the frame back.     *)
(***************************************************************************)
\* an entry page is on screen: nothing of the analytics page is
NotShown == [status |-> "not_shown"]

\* worksheet.get_all_records() inside the try/except of a save handler
ReadExisting(ws, read_ok) == IF read_ok THEN ws ELSE <<>>

\* pd.concat([df_existing, df_new], ignore_index=True)
Concat(df_existing, df_new) == df_existing \o <<df_new>>

\* worksheet.clear(); set_with_dataframe(worksheet, df_updated)
SaveRow(table, df_new, read_ok) ==
    LET df_existing == ReadExisting(sheets[table], read_ok)
        df_updated == Concat(df_existing, df_new)
    IN  /\ TotalRows(sheets) < MaxRows
        /\ sheets' = [sheets EXCEPT ![table] = df_updated]
        /\ view' = NotShown
        /\ since_save' = 0
        /\ UNCHANGED <<sidebar, today, float_bits, table_cache, data_cache, sessions,
                       refresh>>

\* the browser sessions that have an entry page open
Sessions == {1, 2}

\* a session whose button has not been pressed
Waiting == [pc |-> "waiting", table |-> "daily_expenses", df_updated |-> <<>>]

NoSaveRunning == sessions = [s \in Sessions |-> Waiting]

\* set_with_dataframe(worksheet, df_updated, include_index=False): the header
\* and the rows of the frame are written from cell A1 down; the sheet is not
\* resized, so rows below the frame's last row stay as they are
set_with_dataframe(ws, df_updated) ==
    df_updated \o SubSeq(ws, Len(df_updated) + 1, Len(ws))

\* The handler seen from the spreadsheet: get_all_records(), clear() and the
\* update of set_with_dataframe are three requests, and the requests of
\* another session can be served between them.
\* the button is pressed: the existing rows are read and the new row added
ReadStep(s, table, df_new, read_ok) ==
    /\ sessions[s].pc = "waiting"
    /\ sessions' = [sessions EXCEPT ![s] =
           [pc |-> "read", table |-> table,
            df_updated |-> Concat(ReadExisting(sheets[table], read_ok), df_new)]]
    /\ UNCHANGED <<sheets, sidebar, today, view, float_bits, table_cache, data_cache,
                   since_save, refresh>>

\* worksheet.clear()
ClearStep(s) ==
    /\ sessions[s].pc = "read"
    /\ sheets' = [sheets EXCEPT ![sessions[s].table] = <<>>]
    /\ sessions' = [sessions EXCEPT ![s].pc = "cleared"]
    /\ UNCHANGED <<sidebar, today, view, float_bits, table_cache, data_cache, since_save,
                   refresh>>

\* set_with_dataframe(worksheet, df_updated, include_index=False); st.success
WriteStep(s) ==
    /\ sessions[s].pc = "cleared"
    /\ sheets' = [sheets EXCEPT ![sessions[s].table] =
                     set_with_dataframe(@, sessions[s].df_updated)]
    /\ sessions' = [sessions EXCEPT ![s].pc = "saved"]
    /\ view' = NotShown
    /\ since_save' = 0
    /\ UNCHANGED <<sidebar, today, float_bits, table_cache, data_cache, refresh>>

SaveExpense ==
    \E d \in Days, e \in FormEntries, read_ok \in BOOLEAN :
        SaveRow("daily_expenses", ExpenseRow(d, e), read_ok)

SaveWeeklyBudget ==
    \E d \in Days, b \in FormBudgets, read_ok \in BOOLEAN :
        SaveRow("weekly_budget", WeeklyBudgetRow(d, b), read_ok)

SaveDailyBudget ==
    \E d \in Days, b \in FormBudgets, read_ok \in BOOLEAN :
        SaveRow("daily_budget", DailyBudgetRow(d, b), read_ok)

(***************************************************************************)
(* Timestamps and exact fractions.                                         *)
(***************************************************************************)
\* pd.to_datetime of an ISO date string: the midnight of that date
to_datetime(d) == d * TicksPerDay

\* pd.Timedelta(days=n)
Timedelta(n) == n * TicksPerDay

\* Timestamp.weekday(), Monday = 0
weekday(ts) == (ts \div TicksPerDay) % 7

\* Timestamp.date()
DateOf(ts) == ts \div TicksPerDay

\* (t1 - t2).days
DaysBetween(t1, t2) == (t1 - t2) \div TicksPerDay

Frac(n, d) == [num |-> n, den |-> d]
Zero == Frac(0, 1)
\* NaN, as pandas gives for the sample deviation of fewer than two values
NaN == Frac(0, 0)
IsNaN(a) == a.den = 0
\* comparisons of floats: any comparison with NaN is False
FracGT(a, b) == ~IsNaN(a) /\ ~IsNaN(b) /\ a.num * b.den > b.num * a.den
FracLT(a, b) == ~IsNaN(a) /\ ~IsNaN(b) /\ a.num * b.den < b.num * a.den
FracEq(a, b) == ~IsNaN(a) /\ ~IsNaN(b) /\ a.num * b.den = b.num * a.den

(***************************************************************************)
(* Binary floating point.  Python's float is IEEE binary64: every          *)
(* operation gives the representable number nearest to the exact result,   *)
(* ties to the even significand.  The model keeps that rounding and        *)
(* shortens the significand from 53 bits to `bits`; the exponent is        *)
(* unbounded, so nothing overflows or underflows.  A float is held as the  *)
(* fraction it equals, in lowest terms.                                    *)
(***************************************************************************)
Precision == 3

Abs(x) == IF x < 0 THEN -x ELSE x

RECURSIVE Pow2(_)
Pow2(k) == IF k = 0 THEN 1 ELSE 2 * Pow2(k - 1)

RECURSIVE GCD(_, _)
GCD(a, b) == IF b = 0 THEN a ELSE GCD(b, a % b)

Reduce(a) ==
    LET g == GCD(Abs(a.num), a.den)
    IN  IF g = 0 THEN a ELSE Frac(a.num \div g, a.den \div g)

FracAdd(a, b) == Reduce(Frac(a.num * b.den + b.num * a.den, a.den * b.den))
FracSub(a, b) == Reduce(Frac(a.num * b.den - b.num * a.den, a.den * b.den))
FracMul(a, b) == Reduce(Frac(a.num * b.num, a.den * b.den))
\* a / b for b > 0
FracDiv(a, b) == Reduce(Frac(a.num * b.den, a.den * b.num))

\* n / d = q * base^e with lo <= q < base * lo
RECURSIVE Normalize(_, _, _, _, _)
Normalize(n, d, e, base, lo) ==
    IF n >= d * base * lo THEN Normalize(n, base * d, e + 1, base, lo)
    ELSE IF n < d * lo THEN Normalize(base * n, d, e - 1, base, lo)
    ELSE [n |-> n, d |-> d, e |-> e]

\* m * 2^e as a fraction
Scaled(m, e) == IF e >= 0 THEN Frac(m * Pow2(e), 1) ELSE Reduce(Frac(m, Pow2(-e)))

\* the float nearest to the number a, ties to even
RoundToFloat(a, bits) ==
    IF IsNaN(a) \/ a.num = 0 THEN a
    ELSE LET nm == Normalize(Abs(a.num), a.den, 0, 2, Pow2(bits - 1))
             m0 == nm.n \div nm.d
             r == nm.n % nm.d
             m == IF 2 * r > nm.d \/ (2 * r = nm.d /\ m0 % 2 = 1) THEN m0 + 1 ELSE m0
         IN  Scaled(IF a.num < 0 THEN -m ELSE m, nm.e)

\* float(text) of a decimal amount
ParseFloat(amount, bits) == RoundToFloat(Frac(amount, 1), bits)

\* a + b, a - b, a * b, a / b of floats
FloatAdd(a, b, bits) == RoundToFloat(FracAdd(a, b), bits)
FloatSub(a, b, bits) == RoundToFloat(FracSub(a, b), bits)
FloatMul(a, b, bits) == RoundToFloat(FracMul(a, b), bits)
FloatDiv(a, b, bits) == RoundToFloat(FracDiv(a, b), bits)

\* sqrt(a): the float nearest to the square root; NaN stays NaN
FloatSqrt(a, bits) ==
    IF IsNaN(a) \/ a.num = 0 THEN a
    ELSE LET lo == Pow2(bits - 1)
             nm == Normalize(a.num, a.den, 0, 4, lo * lo)
             m0 == CHOOSE m \in lo..(2 * lo - 1) :
                       /\ m * m * nm.d <= nm.n
                       /\ (m + 1) * (m + 1) * nm.d > nm.n
             half == (2 * m0 + 1) * (2 * m0 + 1) * nm.d
             m == IF half < 4 * nm.n \/ (half = 4 * nm.n /\ m0 % 2 = 1) THEN m0 + 1 ELSE m0
         IN  Scaled(m, nm.e)

\* numpy's sum of the values of f over the days lo..hi, added in index order
RECURSIVE FloatSum(_, _, _, _)
FloatSum(f, lo, hi, bits) ==
    IF hi < lo THEN Zero ELSE FloatAdd(FloatSum(f, lo, hi - 1, bits), f[hi], bits)

(***************************************************************************)
(* Data frames: sequences of rows.                                         *)
(***************************************************************************)
category_cols == <<"transport", "food", "data", "other">>

Column(df, col) == [i \in DOMAIN df |-> df[i][col]]

\* df[(df["expense_date"] >= lo) & (df["expense_date"] <= hi)]
Between(df, lo, hi) ==
    SelectSeq(df, LAMBDA r : r.expense_date >= lo /\ r.expense_date <= hi)

\* Series.sum()
ColumnSum(df, col) == SumSeq(Column(df, col))

\* sum of squares of a column, for Series.std()
ColumnSumSq(df, col) == SumSeq([i \in DOMAIN df |-> df[i][col] * df[i][col]])

\* a deviation over n rather than n - 1
StdSq_population(n, sum, sumsq) ==
    IF n < 2 THEN NaN ELSE Frac(n * sumsq - sum * sum, n * n)

\* Series.std(): the sample standard deviation, kept as its square;
\* NaN for fewer than two values
StdSq(n, sum, sumsq) ==
    IF n < 2 THEN NaN ELSE Frac(n * sumsq - sum * sum, n * (n - 1))

\* the first total of each date rather than the sum
GroupByDate_first(df) ==
    [t \in {df[i].expense_date : i \in DOMAIN df} |->
        Head(SelectSeq(df, LAMBDA r : r.expense_date = t)).total]

\* df.groupby("expense_date")["total"].sum(): one entry per date that has a
\* row, the sum of the totals of that date's rows
GroupByDate(df) ==
    [t \in {df[i].expense_date : i \in DOMAIN df} |->
        ColumnSum(SelectSeq(df, LAMBDA r : r.expense_date = t), "total")]

SetMax(S) == CHOOSE x \in S : \A y \in S : y <= x
SetMin(S) == CHOOSE x \in S : \A y \in S : x <= y

Values(f) == {f[x] : x \in DOMAIN f}

(***************************************************************************)
(* load_data: the three worksheets, the expenses cut to the date range.    *)
(***************************************************************************)
\* expenses["expense_date"] = pd.to_datetime(expenses["expense_date"])
ParseDates(ws) == [i \in DOMAIN ws |-> [ws[i] EXCEPT !.expense_date = to_datetime(@)]]

\* pd.DataFrame() for each table
EmptyFrames == [t \in tables |-> <<>>]

\* the try block of load_data over the three frames load_table returned
load_data(sh, start, end) ==
    LET expenses == ParseDates(sh["daily_expenses"])
    IN  [expenses |-> Between(expenses, to_datetime(start), to_datetime(end)),
         budget |-> sh["weekly_budget"],
         daily_budget |-> [i \in DOMAIN sh["daily_budget"] |->
                              [sh["daily_budget"][i] EXCEPT !.budget_date = to_datetime(@)]],
         error |-> FALSE]

\* except Exception: st.error("Error loading data: ..."); three empty frames
LoadFailed == [expenses |-> <<>>, budget |-> <<>>, daily_budget |-> <<>>, error |-> TRUE]

(***************************************************************************)
(* st.cache_data.  An entry is served while its age is below the ttl of    *)
(* its function; entries are kept with their age in seconds, and an        *)
(* entry that has reached its ttl is dropped, since it is never served     *)
(* again.                                                                  *)
(***************************************************************************)
\* @st.cache_data(ttl=300) of load_data
load_data_ttl == 300

\* @st.cache_data(ttl=60) of load_table
load_table_ttl == 60

\* a pause that no cache entry outlives
Idle == load_data_ttl

\* since_save is counted up to here
MaxIdle == load_data_ttl + load_table_ttl

Max2(a, b) == IF a >= b THEN a ELSE b
Min2(a, b) == IF a <= b THEN a ELSE b

\* the entries of a cache dt seconds later
Aged(cache, dt, ttl) ==
    {[e EXCEPT !.age = @ + dt] : e \in {x \in cache : x.age + dt < ttl}}

\* load_table(name) for each of the three tables, through its cache: a hit
\* returns the cached frame, a miss reads the worksheet (which raises when
\* the store is not reachable) and caches the frame it read
load_tables(tc, sh, up) ==
    LET hit(t) == \E e \in tc : e.name = t
        frame(t) == IF hit(t) THEN (CHOOSE e \in tc : e.name = t).df ELSE sh[t]
    IN  IF \E t \in tables : ~hit(t) /\ ~up
        THEN [raised |-> TRUE, frames |-> EmptyFrames, table_cache |-> tc]
        ELSE [raised |-> FALSE, frames |-> [t \in tables |-> frame(t)],
              table_cache |-> tc \cup {[name |-> t, age |-> 0, df |-> sh[t]] :
                                          t \in {u \in tables : ~hit(u)}}]

\* load_data(start, end) through its cache: a hit returns the cached result
\* (and replays its st.error), a miss runs the function and caches what it
\* returned, the three empty frames of the except branch included
cached_load_data(start, end, dc, tc, sh, up) ==
    LET key == <<start, end>>
        tabs == load_tables(tc, sh, up)
        value == IF tabs.raised THEN LoadFailed ELSE load_data(tabs.frames, start, end)
    IN  IF \E e \in dc : e.key = key
        THEN [value |-> (CHOOSE e \in dc : e.key = key).value,
              table_cache |-> tc, data_cache |-> dc]
        ELSE [value |-> value, table_cache |-> tabs.table_cache,
              data_cache |-> dc \cup {[key |-> key, age |-> 0, value |-> value]}]

(***************************************************************************)
(* The analytics script, section by section.                               *)
(***************************************************************************)
\* sidebar presets: "Last 30 days" counts back from pd.to_datetime("today")
PresetSpan == 30

\* date_range of the sidebar, as <<start, end>> dates
SidebarRange(sb, now) ==
    IF sb.date_preset = "Custom" THEN sb.date_range
    ELSE LET end_date == now
             start_date == end_date - Timedelta(PresetSpan)
         IN  <<DateOf(start_date), DateOf(end_date)>>

\* a total that leaves a category out
RowTotal_without_other(r) == r.transport + r.food + r.data

\* expenses["total"] = expenses[category_cols].sum(axis=1)
RowTotal(r) == r.transport + r.food + r.data + r.other

AddTotal(df) ==
    [i \in DOMAIN df |->
        [expense_date |-> df[i].expense_date, transport |-> df[i].transport,
         food |-> df[i].food, data |-> df[i].data, other |-> df[i].other,
         total |-> RowTotal(df[i])]]

\* daily_spends.mean()
Mean(series) == Frac(SumSet(series, DOMAIN series), Cardinality(DOMAIN series))

\* current_week_start, from the two reads of pd.to_datetime("today")
current_week_start(now) == now - Timedelta(weekday(now))

current_week_end(now) == current_week_start(now) + Timedelta(6)

\* the division without its guard
burn_rate_unguarded(weekly_spend, weekly_budget) == Frac(weekly_spend * 100, weekly_budget)

\* burn_rate = (weekly_spend / weekly_budget) * 100 if weekly_budget > 0 else 0
burn_rate(weekly_spend, weekly_budget) ==
    IF weekly_budget > 0 THEN Frac(weekly_spend * 100, weekly_budget) ELSE Zero

period_duration(start, end) == DaysBetween(to_datetime(end), to_datetime(start))

prev_period_start(start, end) == to_datetime(start) - Timedelta(period_duration(start, end))

prev_period_end(start, end) == to_datetime(start) - Timedelta(1)

\* the frame the previous-period total is taken from: the script's
\* `expenses`, which is what load_data returned
PrevPeriodFrame(expenses) == expenses

prev_period_spend(expenses, start, end) ==
    ColumnSum(Between(PrevPeriodFrame(expenses), prev_period_start(start, end),
                      prev_period_end(start, end)), "total")

spend_change_pct(spend_change, prev) ==
    IF prev > 0 THEN Frac(spend_change * 100, prev) ELSE Zero

\* volatility > avg_daily * 0.7, the volatility given by its square
\* (both sides are >= 0, so the squares compare alike)
VolatilityAbove(volatility_sq, avg_daily) ==
    /\ ~IsNaN(volatility_sq)
    /\ ~IsNaN(avg_daily)
    /\ 100 * volatility_sq.num * avg_daily.den * avg_daily.den
         > 49 * avg_daily.num * avg_daily.num * volatility_sq.den

\* the thresholds taken inclusively
categorize_inclusive(avg_daily, volatility_sq, burn) ==
    IF ~FracLT(burn, Frac(120, 1)) THEN "Overspending"
    ELSE IF ~FracLT(burn, Frac(90, 1)) THEN "Near Limit"
    ELSE IF VolatilityAbove(volatility_sq, avg_daily) THEN "Volatile"
    ELSE IF FracLT(avg_daily, Frac(20, 1)) THEN "Frugal"
    ELSE "Balanced"

categorize_spending_behavior(avg_daily, volatility_sq, burn) ==
    IF FracGT(burn, Frac(120, 1)) THEN "Overspending"
    ELSE IF FracGT(burn, Frac(90, 1)) THEN "Near Limit"
    ELSE IF VolatilityAbove(volatility_sq, avg_daily) THEN "Volatile"
    ELSE IF FracLT(avg_daily, Frac(20, 1)) THEN "Frugal"
    ELSE "Balanced"

\* cat_totals = filtered[existing_cats].sum()
cat_totals(filtered) ==
    [c \in {category_cols[i] : i \in DOMAIN category_cols} |-> ColumnSum(filtered, c)]

\* Series.round(1): to the nearest tenth, ties to even; NaN stays NaN
Round1(a) ==
    IF IsNaN(a) THEN NaN
    ELSE LET q == (10 * a.num) \div a.den
             r == (10 * a.num) % a.den
         IN  Frac(IF 2 * r > a.den \/ (2 * r = a.den /\ q % 2 = 1) THEN q + 1 ELSE q, 10)

\* cat_totals["Percentage"] = (Amount / Amount.sum() * 100).round(1);
\* pandas gives NaN for 0 / 0
cat_percentages(totals) ==
    LET sum == SumSet(totals, DOMAIN totals)
    IN  [c \in DOMAIN totals |->
            Round1(IF sum = 0 THEN NaN ELSE Frac(totals[c] * 100, sum))]

(***************************************************************************)
(* detect_spending_patterns(df): weekday profile and weekend ratio.        *)
(***************************************************************************)
\* df.groupby(df['expense_date'].dt.dayofweek)['total'].mean()
daily_pattern(df) ==
    [w \in {weekday(df[i].expense_date) : i \in DOMAIN df} |->
        LET rows == SelectSeq(df, LAMBDA r : weekday(r.expense_date) = w)
        IN  Frac(ColumnSum(rows, "total"), Len(rows))]

\* Series.max(), Series.min() of a series of quotients
FracMax(S) == CHOOSE x \in S : \A y \in S : ~FracGT(y, x)
FracMin(S) == CHOOSE x \in S : \A y \in S : ~FracLT(y, x)

\* Series.idxmax(): the first label that has the largest value
idxmax(series) ==
    SetMin({w \in DOMAIN series : \A v \in DOMAIN series : ~FracGT(series[v], series[w])})

\* a / b > k for numpy floats a >= 0, b >= 0: a / 0 is inf for a > 0, NaN for a = 0
QuotientAbove(a, b, k) ==
    IF b.num = 0 THEN a.num > 0 ELSE FracGT(a, Frac(k * b.num, b.den))

\* len(daily_pattern) > 1 and daily_pattern.max() > 0, then max / min > 2
peak_pattern(pattern) ==
    /\ Cardinality(DOMAIN pattern) > 1
    /\ FracGT(FracMax(Values(pattern)), Zero)
    /\ QuotientAbove(FracMax(Values(pattern)), FracMin(Values(pattern)), 2)

\* df['expense_date'].dt.dayofweek >= 5
is_weekend(r) == weekday(r.expense_date) >= 5

\* weekend_spend: 0 without weekend rows
weekend_spend(df) == ColumnSum(SelectSeq(df, is_weekend), "total")

\* weekday_spend: 1 without weekday rows
weekday_spend(df) ==
    LET rows == SelectSeq(df, LAMBDA r : ~is_weekend(r))
    IN  IF rows # <<>> THEN ColumnSum(rows, "total") ELSE 1

\* weekend_ratio = weekend_spend / weekday_spend if weekday_spend > 0 else 0
weekend_ratio(df) ==
    IF weekday_spend(df) > 0 THEN Frac(weekend_spend(df), weekday_spend(df)) ELSE Zero

detect_spending_patterns(df) ==
    LET pattern == daily_pattern(df)
        ratio == weekend_ratio(df)
        peak == IF peak_pattern(pattern)
                THEN <<[kind |-> "peak", peak_day |-> idxmax(pattern)]>> ELSE <<>>
        weekend == IF FracGT(ratio, Frac(3, 2))
                   THEN <<[kind |-> "weekend", ratio |-> ratio]>> ELSE <<>>
    IN  [status |-> "patterns", daily_pattern |-> pattern, weekend_ratio |-> ratio,
         patterns |-> peak \o weekend]

(***************************************************************************)
(* generate_insights(df, weekly_budget, burn_rate).                        *)
(***************************************************************************)
\* category_totals.idxmax(): the first category that has the largest total
max_cat(totals) ==
    category_cols[SetMin({i \in DOMAIN category_cols :
        \A j \in DOMAIN category_cols : totals[category_cols[j]] <= totals[category_cols[i]]})]

\* the category that takes more than 40% of a positive total
category_insight(df) ==
    LET totals == cat_totals(df)
        sum == SumSet(totals, DOMAIN totals)
    IN  IF sum > 0 /\ totals[max_cat(totals)] * 100 > 40 * sum
        THEN <<[type |-> "category", max_cat |-> max_cat(totals)]>>
        ELSE <<>>

\* days_left = 7 - (datetime.now().date() - pd.Timestamp('today').date()).weekday():
\* the difference of two dates is a datetime.timedelta, which has no weekday(),
\* so the line raises AttributeError whatever the day
days_left(now) == [raised |-> TRUE, value |-> 0]

\* if burn_rate > 100: the alert with the daily limit if days_left > 0; the
\* bare `except: pass` around it swallows whatever is raised
budget_insight(df, weekly_budget, burn, now) ==
    LET left == days_left(now)
    IN  IF FracGT(burn, Frac(100, 1)) /\ ~left.raised /\ left.value > 0
        THEN <<[type |-> "budget",
                daily_limit |-> Frac(weekly_budget - ColumnSum(df, "total"), left.value),
                days_left |-> left.value]>>
        ELSE <<>>

\* the Monday-to-Sunday week of a timestamp, week 0 being that of day 0
WeekOf(ts) == DateOf(ts) \div 7

\* df.set_index('expense_date').resample('W')['total'].sum(): one total for
\* every week from that of the first row to that of the last, 0 for a week
\* without rows
weekly_trend(df) ==
    LET weeks == {WeekOf(df[i].expense_date) : i \in DOMAIN df}
    IN  IF weeks = {} THEN <<>>
        ELSE [k \in 1..(SetMax(weeks) - SetMin(weeks) + 1) |->
                 ColumnSum(SelectSeq(df, LAMBDA r : WeekOf(r.expense_date) = SetMin(weeks) + k - 1),
                           "total")]

\* if len(weekly_trend) > 2: trend = (last - previous) / previous * 100
\* if previous > 0 else 0; an insight if abs(trend) > 10
trend_insight(df) ==
    LET wt == weekly_trend(df)
        n == Len(wt)
        trend == IF n > 2 /\ wt[n - 1] > 0 THEN Frac((wt[n] - wt[n - 1]) * 100, wt[n - 1]) ELSE Zero
    IN  IF n > 2 /\ Abs(trend.num) > 10 * trend.den
        THEN <<[type |-> "trend",
                direction |-> IF trend.num > 0 THEN "increased" ELSE "decreased",
                trend |-> trend]>>
        ELSE <<>>

generate_insights(df, weekly_budget, burn, now) ==
    category_insight(df) \o budget_insight(df, weekly_budget, burn, now) \o trend_insight(df)

(***************************************************************************)
(* Tab 3, the timeline: daily totals and their 7-day moving average.       *)
(***************************************************************************)
\* the elements of a finite set of numbers in ascending order
RECURSIVE SortedSeq(_)
SortedSeq(S) == IF S = {} THEN <<>> ELSE <<SetMin(S)>> \o SortedSeq(S \ {SetMin(S)})

\* rolling(window=7, ...)
Window == 7

\* a mean only over full windows (min_periods = window)
rolling_mean_full_windows(totals) ==
    [i \in DOMAIN totals |->
        LET lo == Max2(1, i - Window + 1)
        IN  IF i - lo + 1 < Window THEN NaN
            ELSE Frac(SumSeq(SubSeq(totals, lo, i)), i - lo + 1)]

\* Series.rolling(window=7, min_periods=1).mean(): at each position the mean
\* of the values of the window that ends there, NaN below min_periods values
rolling_mean(totals) ==
    [i \in DOMAIN totals |->
        LET lo == Max2(1, i - Window + 1)
        IN  IF i - lo + 1 < 1 THEN NaN
            ELSE Frac(SumSeq(SubSeq(totals, lo, i)), i - lo + 1)]

\* daily_agg = filtered.groupby("expense_date").agg({"total": "sum"}).reset_index()
\* with its moving_avg column: one row per date that has a record, by date
daily_agg(filtered) ==
    LET daily == GroupByDate(filtered)
        index == SortedSeq(DOMAIN daily)
        avg == rolling_mean([i \in DOMAIN index |-> daily[index[i]]])
    IN  [i \in DOMAIN index |->
            [expense_date |-> index[i], total |-> daily[index[i]], moving_avg |-> avg[i]]]

(***************************************************************************)
(* Tab 4, anomaly detection.                                               *)
(***************************************************************************)
\* bins only for the dates that have a row
ResampleDays_no_fill(daily) == {DateOf(t) : t \in DOMAIN daily}

\* the dates .resample("D") makes bins for: every day from the first to
\* the last date of the grouped frame's index
ResampleDays(daily) ==
    LET stamps == DOMAIN daily
    IN  DateOf(SetMin(stamps))..DateOf(SetMax(stamps))

\* anomaly_data = groupby(...).sum() ... .resample("D").sum().fillna(0)
anomaly_data(filtered) ==
    LET daily == GroupByDate(filtered)
    IN  [d \in ResampleDays(daily) |->
            IF to_datetime(d) \in DOMAIN daily THEN daily[to_datetime(d)] ELSE 0]

\* std = anomaly_data["total"].std() if anomaly_data["total"].std() > 0 else 1
GuardedStdSq(std_sq) == IF FracGT(std_sq, Zero) THEN std_sq ELSE Frac(1, 1)

\* threshold = anomaly_sensitivity / 5
threshold(sensitivity) == Frac(sensitivity, 5)

\* abs(z_score) > threshold, where z_score = dev / std; std by its square
AbsZAbove(dev, std_sq, thr) ==
    thr.den * thr.den * dev.num * dev.num * std_sq.den
        > thr.num * thr.num * dev.den * dev.den * std_sq.num

Anomalies(filtered, sensitivity) ==
    LET data == anomaly_data(filtered)
        n == Cardinality(DOMAIN data)
        sum == SumSet(data, DOMAIN data)
        sumsq == SumSet([d \in DOMAIN data |-> data[d] * data[d]], DOMAIN data)
        mean == Frac(sum, n)
        std_sq == GuardedStdSq(StdSq(n, sum, sumsq))
        \* total - mean
        dev == [d \in DOMAIN data |-> Frac(n * data[d] - sum, n)]
        is_anomaly == [d \in DOMAIN data |-> AbsZAbove(dev[d], std_sq, threshold(sensitivity))]
    IN  [anomaly_data |-> data, mean |-> mean, std_sq |-> std_sq, dev |-> dev,
         is_anomaly |-> is_anomaly,
         anomaly_points |-> {d \in DOMAIN data : is_anomaly[d]}]

\* Series.mean(): values.sum() / count
FloatMean(data, bits) ==
    LET days == DOMAIN data
    IN  FloatDiv(FloatSum(data, SetMin(days), SetMax(days), bits),
                 Frac(Cardinality(days), 1), bits)

\* Series.std() as pandas' nanvar computes it: avg = sum / count,
\* sqr = (avg - values) ** 2, var = sqr.sum() / (count - 1), std = sqrt(var);
\* NaN for fewer than two values
FloatStd(data, bits) ==
    LET days == DOMAIN data
        n == Cardinality(days)
        avg == FloatMean(data, bits)
        sqr == [d \in days |->
                   LET diff == FloatSub(avg, data[d], bits) IN FloatMul(diff, diff, bits)]
    IN  IF n < 2 THEN NaN
        ELSE FloatSqrt(FloatDiv(FloatSum(sqr, SetMin(days), SetMax(days), bits),
                                Frac(n - 1, 1), bits), bits)

\* std = anomaly_data["total"].std() if anomaly_data["total"].std() > 0 else 1
GuardedStd(std) == IF FracGT(std, Zero) THEN std ELSE Frac(1, 1)

\* the anomaly tab as the machine computes it, in floats of `bits` bits; the
\* amounts are floats from the entry form on, a day's total is taken as the
\* float nearest to the sum of its amounts
FloatAnomalies(filtered, sensitivity, bits) ==
    LET grid == anomaly_data(filtered)
        data == [d \in DOMAIN grid |-> ParseFloat(grid[d], bits)]
        mean == FloatMean(data, bits)
        std == GuardedStd(FloatStd(data, bits))
        z_score == [d \in DOMAIN data |->
                       FloatDiv(FloatSub(data[d], mean, bits), std, bits)]
        thr == FloatDiv(Frac(sensitivity, 1), Frac(5, 1), bits)
        is_anomaly == [d \in DOMAIN data |->
                          FracGT(Frac(Abs(z_score[d].num), z_score[d].den), thr)]
    IN  [anomaly_data |-> data, mean |-> mean, std |-> std, z_score |-> z_score,
         is_anomaly |-> is_anomaly,
         anomaly_points |-> {d \in DOMAIN data : is_anomaly[d]}]

(***************************************************************************)
(* One run of the script.                                                  *)
(***************************************************************************)
\* st.warning("No expense data found ..."); st.stop()
\* error: load_data's st.error("Error loading data: ...") is on the page too
NoData(start, end, error) ==
    [status |-> "no_data", start |-> start, end |-> end, error |-> error]

\* the budget the weekly context takes from the last row of the worksheet
weekly_budget_from_sheet(sb, budget) ==
    IF budget = <<>> THEN sb.weekly_budget_input ELSE budget[Len(budget)].weekly_budget

\* weekly_budget = weekly_budget_input: the number typed in the sidebar; the
\* `budget` frame that load_data returned is not read
weekly_budget_in_use(sb, budget) == sb.weekly_budget_input

\* the script from line 243 on, over what load_data(start, end) returned
Script(loaded, sb, now, bits) ==
    LET range == SidebarRange(sb, now)
        start == range[1]
        end == range[2]
    IN  IF loaded.expenses = <<>> THEN NoData(start, end, loaded.error)
        ELSE
        LET expenses == AddTotal(loaded.expenses)
            filtered == Between(expenses, to_datetime(start), to_datetime(end))
            total_spend == ColumnSum(filtered, "total")
            daily_spends == GroupByDate(filtered)
            avg_daily_spend == IF DOMAIN daily_spends # {} THEN Mean(daily_spends) ELSE Zero
            weekly_budget == weekly_budget_in_use(sb, loaded.budget)
            weekly_expenses == Between(filtered, current_week_start(now), current_week_end(now))
            weekly_spend == ColumnSum(weekly_expenses, "total")
            burn == burn_rate(weekly_spend, weekly_budget)
            prev == prev_period_spend(expenses, start, end)
            spend_change == total_spend - prev
            volatility_sq == StdSq(Len(filtered), total_spend, ColumnSumSq(filtered, "total"))
        IN  [status |-> "ok", start |-> start, end |-> end, now |-> now,
             weekly_budget |-> weekly_budget,
             sensitivity |-> sb.anomaly_sensitivity,
             transactions_count |-> Len(filtered),
             total_spend |-> total_spend,
             daily_spends |-> daily_spends,
             avg_daily_spend |-> avg_daily_spend,
             max_daily_spend |-> IF DOMAIN daily_spends # {} THEN SetMax(Values(daily_spends)) ELSE 0,
             min_daily_spend |-> IF DOMAIN daily_spends # {} THEN SetMin(Values(daily_spends)) ELSE 0,
             current_week_start |-> current_week_start(now),
             current_week_end |-> current_week_end(now),
             weekly_spend |-> weekly_spend,
             burn_rate |-> burn,
             prev_period_start |-> prev_period_start(start, end),
             prev_period_end |-> prev_period_end(start, end),
             prev_period_spend |-> prev,
             spend_change |-> spend_change,
             spend_change_pct |-> spend_change_pct(spend_change, prev),
             volatility_sq |-> volatility_sq,
             behavior |-> categorize_spending_behavior(avg_daily_spend, volatility_sq, burn),
             insights |-> generate_insights(filtered, weekly_budget, burn, now),
             cat_totals |-> cat_totals(filtered),
             daily_agg |-> daily_agg(filtered),
             cat_percentages |-> cat_percentages(cat_totals(filtered)),
             anomalies |-> IF bits = 0
                           THEN Anomalies(filtered, sb.anomaly_sensitivity)
                           ELSE FloatAnomalies(filtered, sb.anomaly_sensitivity, bits)]

(***************************************************************************)
(* The analytics page: every widget change reruns the script.              *)
(***************************************************************************)
\* st.number_input("Weekly Budget", min_value=0, value=1000, step=50)
BudgetInputs == {0, 50, 1000}

\* st.slider("Anomaly Detection Sensitivity", 1, 10, 5)
Sensitivities == 1..10

DefaultSidebar ==
    [date_preset |-> "Last 30 days", date_range |-> <<0, 0>>,
     weekly_budget_input |-> 1000, anomaly_sensitivity |-> 5]

\* the checkbox unchecked (value=False) and no run of the page made yet
NotRefreshing ==
    refresh = [checked |-> FALSE, trigger |-> "none", previous |-> "none", elapsed |-> 0]

\* one run of the page, started by `trigger` dt seconds after the step before
\* it, the auto-refresh checkbox being as in `checked`; up: the spreadsheet
\* can be reached during this run.  The checkbox is the script's last
\* statement: a run ended by st.stop() does not render it, and Streamlit
\* drops the state of a widget that a run has not rendered.
RunScript(sb, dt, up, checked, trigger) ==
    LET range == SidebarRange(sb, today)
        call == cached_load_data(range[1], range[2],
                                 Aged(data_cache, dt, load_data_ttl),
                                 Aged(table_cache, dt, load_table_ttl), sheets, up)
    IN  /\ sidebar' = sb
        /\ table_cache' = call.table_cache
        /\ data_cache' = call.data_cache
        /\ view' = Script(call.value, sb, today, float_bits)
        /\ since_save' = Min2(since_save + dt, MaxIdle)
        /\ refresh' = [checked |-> checked /\ view'.status = "ok", trigger |-> trigger,
                       previous |-> refresh.trigger, elapsed |-> dt]
        /\ UNCHANGED <<sheets, today, float_bits, sessions>>

\* a run started by the user: the page opened or a widget changed
Rerun(sb, dt, up) == RunScript(sb, dt, up, refresh.checked, "widget")

\* the "Auto-refresh data (every 5 min)" checkbox is ticked or cleared; it is
\* on screen only after a run that reached the end of the script
ToggleAutoRefresh ==
    /\ view.status = "ok"
    /\ \E up \in BOOLEAN : RunScript(sidebar, Idle, up, ~refresh.checked, "widget")

\* if st.sidebar.checkbox(...): st.rerun() -- the run that has just reached
\* the end of the script with the box ticked starts the next one at once
AutoRefresh ==
    /\ view.status = "ok"
    /\ refresh.checked
    /\ \E up \in BOOLEAN : RunScript(sidebar, 0, up, TRUE, "auto_refresh")

\* the page is opened, or rerun with the widgets as they are, after a pause
OpenAnalytics == \E up \in BOOLEAN : Rerun(sidebar, Idle, up)

\* "Custom" is picked in Quick Select and a range in st.date_input
SelectDateRange ==
    \E s \in Days, e \in Days :
        /\ s <= e
        /\ \E up \in BOOLEAN :
              Rerun([sidebar EXCEPT !.date_preset = "Custom", !.date_range = <<s, e>>], Idle, up)

SetWeeklyBudget ==
    \E b \in BudgetInputs, up \in BOOLEAN :
        Rerun([sidebar EXCEPT !.weekly_budget_input = b], Idle, up)

SetSensitivity ==
    \E k \in Sensitivities, up \in BOOLEAN :
        Rerun([sidebar EXCEPT !.anomaly_sensitivity = k], Idle, up)

(***************************************************************************)
(* Specifications.                                                         *)
(***************************************************************************)
Clock == 0..(MaxDay * TicksPerDay + TicksPerDay - 1)

EmptySheets == [t \in tables |-> <<>>]

\* nothing cached, nothing saved lately
ColdCaches == table_cache = {} /\ data_cache = {} /\ since_save = MaxIdle

\* the entry pages, from empty worksheets
Init ==
    /\ sheets = EmptySheets
    /\ sidebar = DefaultSidebar
    /\ today \in Clock
    /\ view = NotShown
    /\ float_bits = 0 /\ ColdCaches /\ NoSaveRunning /\ NotRefreshing

Next == SaveExpense \/ SaveWeeklyBudget \/ SaveDailyBudget

Spec == Init /\ [][Next]_vars

SeqUpTo(S, n) == UNION {[1..k -> S] : k \in 0..n}

\* 2024-01-01 food 50, 2024-01-02 food 10, 2024-01-03 food 500
ScenarioRows ==
    <<ExpenseRow(0, <<0, 50, 0, 0>>), ExpenseRow(1, <<0, 10, 0, 0>>),
      ExpenseRow(2, <<0, 500, 0, 0>>)>>

\* one week's spend of 1200 against the default weekly budget of 1000
BudgetScenarioRows == <<ExpenseRow(0, <<0, 1200, 0, 0>>)>>

RecordSets == SeqUpTo(ExpenseRows, MaxRows) \cup {ScenarioRows, BudgetScenarioRows}

\* the analytics page over a store the entry pages have filled
InitStore ==
    /\ \E rows \in RecordSets : sheets = [EmptySheets EXCEPT !["daily_expenses"] = rows]
    /\ sidebar = DefaultSidebar
    /\ view = NotShown

LastTick == MaxDay * TicksPerDay + TicksPerDay - 1

\* date ranges picked late on the last day
InitRange == InitStore /\ today = LastTick /\ float_bits = 0 /\ ColdCaches /\ NoSaveRunning /\ NotRefreshing

NextRange == OpenAnalytics \/ SelectDateRange

SpecRange == InitRange /\ [][NextRange]_vars

\* weekly budgets tried at any time of any day
InitWeek == InitStore /\ today \in Clock /\ float_bits = 0 /\ ColdCaches /\ NoSaveRunning /\ NotRefreshing

NextWeek == OpenAnalytics \/ SetWeeklyBudget

SpecWeek == InitWeek /\ [][NextWeek]_vars

\* sensitivities tried late on the last day
InitAnomaly == InitStore /\ today = LastTick /\ float_bits = 0 /\ ColdCaches /\ NoSaveRunning /\ NotRefreshing

NextAnomaly == OpenAnalytics \/ SetSensitivity

SpecAnomaly == InitAnomaly /\ [][NextAnomaly]_vars

\* seconds between one step and the next rerun: less than load_table's ttl,
\* and most of load_data's
Waits == {load_table_ttl - 20, load_data_ttl - 20}

\* the page is rerun with a range from day 0 picked, some time after the
\* step before it, the spreadsheet being reachable
Requery ==
    \E dt \in Waits, e \in Days :
        Rerun([sidebar EXCEPT !.date_preset = "Custom", !.date_range = <<0, e>>], dt, TRUE)

\* saves and reruns in any order, within the ttls of the caches
InitCache == Init /\ today = LastTick

\* the Daily Entry form saved with food 10 on day 0, the read succeeding
SaveFood == SaveRow("daily_expenses", ExpenseRow(0, <<0, 10, 0, 0>>), TRUE)

NextCache == SaveFood \/ Requery

SpecCache == InitCache /\ [][NextCache]_vars

\* the wall clock moves on by a tick, which is longer than any ttl; what is
\* on the screen stays
TimePasses ==
    /\ today < LastTick
    /\ today' = today + 1
    /\ table_cache' = Aged(table_cache, MaxIdle, load_table_ttl)
    /\ data_cache' = Aged(data_cache, MaxIdle, load_data_ttl)
    /\ since_save' = MaxIdle
    /\ UNCHANGED <<sheets, sidebar, view, float_bits, sessions, refresh>>

\* the same page run again later
InitClock == InitStore /\ today \in Clock /\ float_bits = 0 /\ ColdCaches /\ NoSaveRunning /\ NotRefreshing

NextClock == OpenAnalytics \/ SelectDateRange \/ TimePasses

SpecClock == InitClock /\ [][NextClock]_vars

\* the page with its auto-refresh option
InitRefresh == InitStore /\ today = LastTick /\ float_bits = 0 /\ ColdCaches /\ NoSaveRunning /\ NotRefreshing

NextRefresh == OpenAnalytics \/ ToggleAutoRefresh \/ AutoRefresh

SpecRefresh == InitRefresh /\ [][NextRefresh]_vars

\* budgets saved on the two budget pages between runs of the analytics page
InitBudgets == InitStore /\ today = LastTick /\ float_bits = 0 /\ ColdCaches /\ NoSaveRunning /\ NotRefreshing

NextBudgets == OpenAnalytics \/ SetWeeklyBudget \/ SaveWeeklyBudget \/ SaveDailyBudget

SpecBudgets == InitBudgets /\ [][NextBudgets]_vars

\* the rows the two worksheets hold before the sessions save
SessionSheets ==
    [EmptySheets EXCEPT !["daily_expenses"] = <<ExpenseRow(0, <<20, 0, 10, 15>>)>>,
                        !["weekly_budget"] = <<WeeklyBudgetRow(0, 50)>>]

InitSessions ==
    /\ sheets = SessionSheets
    /\ sidebar = DefaultSidebar
    /\ view = NotShown
    /\ today = 0
    /\ float_bits = 0 /\ ColdCaches /\ NoSaveRunning /\ NotRefreshing

\* each session presses its button once, session s having typed an amount of
\* its own (10 * s for food, 1000 * s for the budget); every read succeeds
PressSaveExpense ==
    \E s \in Sessions, d \in Days :
        ReadStep(s, "daily_expenses", ExpenseRow(d, <<0, 10 * s, 0, 0>>), TRUE)

PressSaveWeeklyBudget ==
    \E s \in Sessions, d \in Days :
        ReadStep(s, "weekly_budget", WeeklyBudgetRow(d, 1000 * s), TRUE)

Clear == \E s \in Sessions : ClearStep(s)

Write == \E s \in Sessions : WriteStep(s)

NextSessions == PressSaveExpense \/ PressSaveWeeklyBudget \/ Clear \/ Write

SpecSessions == InitSessions /\ [][NextSessions]_vars
SeriesLen == 8

\* one record of food 10 or food 50 a day, from day 0 on, for up to SeriesLen days
SeriesRows ==
    UNION {[1..n -> {<<0, 10, 0, 0>>, <<0, 50, 0, 0>>}] : n \in 1..SeriesLen}

\* the page opened the day after SeriesLen days of records
InitSeries ==
    /\ \E e \in SeriesRows :
           sheets = [EmptySheets EXCEPT
                        !["daily_expenses"] = [i \in DOMAIN e |-> ExpenseRow(i - 1, e[i])]]
    /\ sidebar = DefaultSidebar
    /\ view = NotShown
    /\ today = to_datetime(SeriesLen)
    /\ float_bits = 0 /\ ColdCaches /\ NoSaveRunning /\ NotRefreshing

NextSeries == OpenAnalytics

SpecSeries == InitSeries /\ [][NextSeries]_vars

\* Sunday 2024-01-07, Monday 2024-01-08, Monday 2024-01-15: three weeks running
TrendDays == <<6, 7, 14>>

TrendRows == {ExpenseRow(TrendDays[i], e) : i \in DOMAIN TrendDays, e \in FormEntries}

\* one record on each of TrendDays
WeeklyRows == {[i \in DOMAIN TrendDays |-> ExpenseRow(TrendDays[i], e[i])] :
                  e \in [DOMAIN TrendDays -> FormEntries]}

\* the page opened on 2024-01-15 over records of the last three weeks
InitTrend ==
    /\ \E rows \in SeqUpTo(TrendRows, MaxRows) \cup WeeklyRows :
           sheets = [EmptySheets EXCEPT !["daily_expenses"] = rows]
    /\ sidebar = DefaultSidebar
    /\ view = NotShown
    /\ today = to_datetime(TrendDays[3]) + TicksPerDay - 1
    /\ float_bits = 0 /\ ColdCaches /\ NoSaveRunning /\ NotRefreshing

NextTrend == OpenAnalytics \/ SetWeeklyBudget

SpecTrend == InitTrend /\ [][NextTrend]_vars

\* Friday 2024-01-05 and the days after it
PatternDays == 4..(4 + MaxDay)

PatternRows == {ExpenseRow(d, e) : d \in PatternDays, e \in FormEntries}

\* detect_spending_patterns applied to the expenses of a store that holds
\* records around a weekend
InitPatterns ==
    /\ \E rows \in SeqUpTo(PatternRows, MaxRows) :
           sheets = [EmptySheets EXCEPT !["daily_expenses"] = rows]
    /\ sidebar = DefaultSidebar
    /\ view = NotShown
    /\ today = to_datetime(4 + MaxDay)
    /\ float_bits = 0 /\ ColdCaches /\ NoSaveRunning /\ NotRefreshing

DetectSpendingPatterns ==
    /\ sheets["daily_expenses"] # <<>>
    /\ view' = detect_spending_patterns(AddTotal(ParseDates(sheets["daily_expenses"])))
    /\ UNCHANGED <<sheets, sidebar, today, float_bits, table_cache, data_cache, since_save,
                   sessions, refresh>>

NextPatterns == DetectSpendingPatterns

SpecPatterns == InitPatterns /\ [][NextPatterns]_vars

\* one expense a day on each of Days
DailyRows == {[i \in 1..(MaxDay + 1) |-> ExpenseRow(i - 1, e[i])] :
                 e \in [1..(MaxDay + 1) -> FormEntries]}

\* sensitivities tried on a machine with floats
InitFloat ==
    /\ \E rows \in DailyRows : sheets = [EmptySheets EXCEPT !["daily_expenses"] = rows]
    /\ sidebar = DefaultSidebar
    /\ view = NotShown
    /\ today = LastTick
    /\ float_bits = Precision /\ ColdCaches /\ NoSaveRunning /\ NotRefreshing

NextFloat == OpenAnalytics \/ SetSensitivity

SpecFloat == InitFloat /\ [][NextFloat]_vars

(***************************************************************************)
(* C1: saving a row is an append -- each save leaves the worksheet with    *)
(* every row it held before, unchanged and in the same order, followed by  *)
(* exactly the one new row; no other worksheet changes.                    *)
(***************************************************************************)
C1_SaveAppends ==
    [][\A t \in tables :
          sheets'[t] # sheets[t] =>
              /\ Len(sheets'[t]) = Len(sheets[t]) + 1
              /\ SubSeq(sheets'[t], 1, Len(sheets[t])) = sheets[t]]_vars

(***************************************************************************)
(* What the claims speak of, read off the store itself.                    *)
(***************************************************************************)
Shown == view.status = "ok"

Store == sheets["daily_expenses"]

\* sum of the four amounts of the stored rows dated in lo..hi
StoreSpend(lo, hi) ==
    SumSeq([i \in DOMAIN Store |->
        IF lo <= Store[i].expense_date /\ Store[i].expense_date <= hi
        THEN Store[i].transport + Store[i].food + Store[i].data + Store[i].other
        ELSE 0])

StoreDates(lo, hi) ==
    {Store[i].expense_date : i \in {j \in DOMAIN Store :
        lo <= Store[j].expense_date /\ Store[j].expense_date <= hi}}

C3_WeekSpendWholeDays ==
    Shown =>
        LET weekStart == DateOf(view.now) - weekday(view.now)
            weekEnd == weekStart + 6
        IN  view.weekly_spend =
                StoreSpend(Max2(weekStart, view.start), Min2(weekEnd, view.end))

(***************************************************************************)
(* C4: the previous-period window has as many calendar days as the current *)
(* window start..end, both ends counted, and ends the day before start.    *)
(***************************************************************************)
C4_PrevWindowSameLength ==
    Shown =>
        /\ DateOf(view.prev_period_end) = view.start - 1
        /\ DateOf(view.prev_period_end) - DateOf(view.prev_period_start) + 1
              = view.end - view.start + 1

(***************************************************************************)
(* C5: previousTotal is the sum of the totals of all records of the store  *)
(* dated in the previous-period window; when that sum is positive,         *)
(* deltaPercent is (currentTotal - previousTotal) / previousTotal * 100.   *)
(***************************************************************************)
C5_PrevTotalFromStore ==
    Shown =>
        LET inWindow == StoreSpend(DateOf(view.prev_period_start), DateOf(view.prev_period_end))
        IN  /\ view.prev_period_spend = inWindow
            /\ inWindow > 0 =>
                  FracEq(view.spend_change_pct,
                         Frac((view.total_spend - inWindow) * 100, inWindow))

(***************************************************************************)
(* C6: burn rate is weeklySpend / weeklyBudget * 100 when weeklyBudget > 0 *)
(* and exactly 0 when weeklyBudget <= 0, whatever weeklySpend; it is 0     *)
(* too when weeklySpend is 0 and weeklyBudget > 0.                         *)
(***************************************************************************)
C6_BurnRate ==
    Shown =>
        /\ view.burn_rate.den > 0
        /\ view.weekly_budget > 0 =>
              view.burn_rate.num * view.weekly_budget
                  = view.weekly_spend * 100 * view.burn_rate.den
        /\ view.weekly_budget <= 0 => view.burn_rate.num = 0
        /\ (view.weekly_spend = 0 /\ view.weekly_budget > 0) => view.burn_rate.num = 0

\* money spent this week against a weekly budget of 0
C6_Witness ==
    /\ Shown
    /\ view.weekly_budget = 0
    /\ view.weekly_spend > 0
    /\ view.burn_rate.num = 0

(***************************************************************************)
(* C7: the behaviour class is exactly one of Overspending, Near Limit,     *)
(* Volatile, Frugal, Balanced, the first that matches of burnRate > 120,   *)
(* burnRate > 90, volatility > 0.7 * avgDaily, avgDaily < 20, else         *)
(* Balanced; all comparisons strict: burnRate = 120 gives Near Limit and   *)
(* burnRate = 90 does not.                                                 *)
(***************************************************************************)
C7_BehaviourByPrecedence ==
    Shown =>
        LET b == view.burn_rate
            a == view.avg_daily_spend
            v == view.volatility_sq
            over == b.num > 120 * b.den
            near == b.num > 90 * b.den
            vol == v.den # 0 /\ 100 * v.num * a.den * a.den > 49 * a.num * a.num * v.den
            low == a.num < 20 * a.den
        IN  /\ view.behavior \in {"Overspending", "Near Limit", "Volatile", "Frugal", "Balanced"}
            /\ view.behavior = "Overspending" <=> over
            /\ view.behavior = "Near Limit" <=> (~over /\ near)
            /\ view.behavior = "Volatile" <=> (~near /\ vol)
            /\ view.behavior = "Frugal" <=> (~near /\ ~vol /\ low)
            /\ view.behavior = "Balanced" <=> (~near /\ ~vol /\ ~low)
            /\ b.num = 120 * b.den => view.behavior = "Near Limit"
            /\ b.num = 90 * b.den => view.behavior # "Near Limit"

\* weekly budget 1000, current-week spend 1200: burn rate 120, Near Limit
C7_Witness ==
    /\ Shown
    /\ view.weekly_budget = 1000
    /\ view.weekly_spend = 1200
    /\ view.burn_rate.num = 120 * view.burn_rate.den
    /\ view.behavior = "Near Limit"

(***************************************************************************)
(* C8: the series fed to anomaly detection has one entry for every         *)
(* calendar day of the query range start..end, days before the first and   *)
(* after the last recorded expense included, a day without a record        *)
(* valued 0; mean and deviation are taken over that whole grid.            *)
(***************************************************************************)
C8_GridIsQueryRange ==
    Shown =>
        /\ DOMAIN view.anomalies.anomaly_data = view.start..view.end
        /\ \A d \in DOMAIN view.anomalies.anomaly_data :
              view.anomalies.anomaly_data[d] = StoreSpend(d, d)

\* C8 as the script has it: the grid runs from the first to the last date
\* of the range that has a record, every day between them present, a day
\* without a record valued 0, and the mean is taken over that grid.
C8_GridIsRecordSpan ==
    Shown =>
        LET dates == StoreDates(view.start, view.end)
            grid == DOMAIN view.anomalies.anomaly_data
        IN  /\ grid = SetMin(dates)..SetMax(dates)
            /\ \A d \in grid : view.anomalies.anomaly_data[d] = StoreSpend(d, d)
            /\ view.anomalies.mean.den = Cardinality(grid)
            /\ view.anomalies.mean.num = StoreSpend(SetMin(dates), SetMax(dates))

\* records on two days with an empty day between them, inside a wider range
C8_Witness ==
    /\ Shown
    /\ view.start < SetMin(DOMAIN view.anomalies.anomaly_data)
    /\ \E d \in DOMAIN view.anomalies.anomaly_data :
          /\ StoreDates(d, d) = {}
          /\ view.anomalies.anomaly_data[d] = 0
          /\ StoreDates(d - 1, d - 1) # {}
          /\ StoreDates(d + 1, d + 1) # {}

(***************************************************************************)
(* C9: a day is flagged exactly when abs(value - mean) / std is above      *)
(* sensitivity / 5, mean and sample standard deviation being those of the  *)
(* zero-filled daily series; only flagged days are in the anomaly output.  *)
(* For 2024-01-01: 50, 2024-01-02: 10, 2024-01-03: 500 and sensitivity 5,  *)
(* 2024-01-03 is flagged and the other two days are not.                   *)
(***************************************************************************)
C9_FlaggedByZScore ==
    Shown =>
        LET data == view.anomalies.anomaly_data
            n == Cardinality(DOMAIN data)
            s == SumSet(data, DOMAIN data)
            q == SumSet([d \in DOMAIN data |-> data[d] * data[d]], DOMAIN data)
            k == view.sensitivity
            \* sample variance (n q - s s) / (n (n - 1)), value - mean = (n v - s) / n
            varNum == n * q - s * s
        IN  /\ view.anomalies.anomaly_points \subseteq DOMAIN data
            /\ (n >= 2 /\ varNum > 0) =>
                  \A d \in DOMAIN data :
                      d \in view.anomalies.anomaly_points
                          <=> 25 * (n * data[d] - s) * (n * data[d] - s) * (n - 1)
                                  > k * k * n * varNum
            /\ (Store = ScenarioRows /\ k = 5 /\ DOMAIN data = 0..2) =>
                  view.anomalies.anomaly_points = {2}

\* the scenario, run at sensitivity 5
C9_Witness ==
    /\ Shown
    /\ Store = ScenarioRows
    /\ view.sensitivity = 5
    /\ DOMAIN view.anomalies.anomaly_data = 0..2
    /\ view.anomalies.anomaly_points = {2}

(***************************************************************************)
(* C10: when every day of the anomaly grid has the same value, a single    *)
(* day included, the standard deviation is replaced by 1, every z-score    *)
(* is 0, and no day is flagged at any sensitivity from 1 to 10.            *)
(***************************************************************************)
C10_ConstantSeriesUnflagged ==
    Shown =>
        LET a == view.anomalies
            days == DOMAIN a.anomaly_data
        IN  (\A d, e \in days : StoreSpend(d, d) = StoreSpend(e, e)) =>
                /\ a.std = Frac(1, 1)
                /\ \A d \in days : a.z_score[d].num = 0
                /\ a.anomaly_points = {}

(***************************************************************************)
(* C11: when the total spend over the range is zero (records in range, all *)
(* their amounts 0) the category breakdown gives percentage 0 for every    *)
(* category; when the total is positive the percentages sum to 100 within  *)
(* rounding (four roundings to a tenth: within 0.2).                       *)
(***************************************************************************)
C11_PercentagesDefined ==
    Shown =>
        LET p == view.cat_percentages
            tenths == SumSet([c \in DOMAIN p |-> p[c].num], DOMAIN p)
        IN  /\ view.total_spend = 0 =>
                  \A c \in DOMAIN p : ~IsNaN(p[c]) /\ p[c].num = 0
            /\ view.total_spend > 0 =>
                  /\ \A c \in DOMAIN p : p[c].den = 10
                  /\ 998 <= tenths /\ tenths <= 1002

(***************************************************************************)
(* C12: the weekend-vs-weekday ratio is weekendSpend / weekdaySpend when   *)
(* weekdaySpend > 0 and 0 whenever weekdaySpend is 0, also when there is   *)
(* no weekday record at all; a record set with only weekend records never  *)
(* produces the weekend-spending pattern.                                  *)
(***************************************************************************)
PatternsShown == view.status = "patterns"

\* total of the stored rows whose weekday is in the set ws
StoreSpendOn(ws) ==
    SumSeq([i \in DOMAIN Store |->
        IF Store[i].expense_date % 7 \in ws
        THEN Store[i].transport + Store[i].food + Store[i].data + Store[i].other
        ELSE 0])

HasPattern(kind) == \E i \in DOMAIN view.patterns : view.patterns[i].kind = kind

C12_WeekendRatioGuarded ==
    PatternsShown =>
        LET weekendSpend == StoreSpendOn({5, 6})
            weekdaySpend == StoreSpendOn(0..4)
        IN  /\ weekdaySpend > 0 =>
                  FracEq(view.weekend_ratio, Frac(weekendSpend, weekdaySpend))
            /\ weekdaySpend = 0 =>
                  /\ view.weekend_ratio.num = 0
                  /\ ~HasPattern("weekend")

(***************************************************************************)
(* C13: peak-weekday detection is skipped whenever the smallest            *)
(* per-weekday mean is 0 -- no peak-weekday pattern is reported then; one  *)
(* is reported only when max mean / min mean > 2 with min mean > 0.        *)
(***************************************************************************)
C13_PeakSkippedOnZeroMin ==
    PatternsShown =>
        LET means == Values(view.daily_pattern)
        IN  HasPattern("peak") =>
                /\ FracGT(FracMin(means), Zero)
                /\ FracGT(FracMax(means), Frac(2 * FracMin(means).num, FracMin(means).den))

(***************************************************************************)
(* C14: the trend insight compares the last two weekly totals of the       *)
(* range: whenever the range yields at least two weekly totals, the        *)
(* earlier of the last two is positive and abs(percentChange) > 10, a      *)
(* trend insight with the right direction is emitted; when the earlier     *)
(* total is 0 the change is taken as 0 and no trend insight is emitted.    *)
(***************************************************************************)
TrendInsights == SelectSeq(view.insights, LAMBDA x : x.type = "trend")

C14_TrendFromLastTwoWeeks ==
    Shown =>
        LET dates == StoreDates(view.start, view.end)
            firstWeek == SetMin(dates) \div 7
            lastWeek == SetMax(dates) \div 7
            \* total of the records of week w that are in the range
            weekTotal(w) == StoreSpend(Max2(view.start, 7 * w), Min2(view.end, 7 * w + 6))
            earlier == weekTotal(lastWeek - 1)
            last == weekTotal(lastWeek)
        IN  firstWeek < lastWeek =>
                /\ (earlier > 0 /\ Abs(last - earlier) * 100 > 10 * earlier) =>
                       /\ Len(TrendInsights) = 1
                       /\ TrendInsights[1].direction =
                              (IF last > earlier THEN "increased" ELSE "decreased")
                /\ earlier = 0 => TrendInsights = <<>>

(***************************************************************************)
(* C15: when the Record Store fails to respond, the query ends in a        *)
(* failure outcome that is distinct from the outcome of a reachable store  *)
(* with zero records in range: the "no data" result is not produced for a  *)
(* store failure.                                                          *)
(***************************************************************************)
C15_FailureIsNotNoData ==
    view.status = "no_data" => ~view.error

(***************************************************************************)
(* C16: for an empty record set and any date range, the engine returns a   *)
(* snapshot with every numeric field 0 and every sequence empty, and       *)
(* raises no error.                                                        *)
(***************************************************************************)
LoadErrorShown == view.status = "no_data" /\ view.error

C16_EmptySetZeroSnapshot ==
    (view.status # "not_shown" /\ Store = <<>> /\ ~LoadErrorShown) =>
        /\ view.status = "ok"
        /\ view.total_spend = 0
        /\ view.transactions_count = 0
        /\ view.avg_daily_spend.num = 0
        /\ view.max_daily_spend = 0
        /\ view.min_daily_spend = 0
        /\ view.weekly_spend = 0
        /\ view.burn_rate.num = 0
        /\ DOMAIN view.daily_spends = {}
        /\ view.insights = <<>>
        /\ view.anomalies.anomaly_points = {}

(***************************************************************************)
(* C17: a record appended to the store is included in every analytics      *)
(* query whose range covers its date and that is issued more than the      *)
(* cache time-to-live (300 seconds, the ttl of load_data) after the        *)
(* append, for any interleaving of earlier queries and appends: a query    *)
(* made more than 300 seconds after the last save counts every stored      *)
(* record of its range.                                                    *)
(***************************************************************************)
C17_AppendVisibleAfterTTL ==
    [][(view'.status # "not_shown" /\ since_save' > load_data_ttl) =>
          LET rows == sheets'["daily_expenses"]
              n == Cardinality({i \in DOMAIN rows :
                       view'.start <= rows[i].expense_date /\ rows[i].expense_date <= view'.end})
          IN  IF n = 0 THEN view'.status = "no_data"
              ELSE view'.status = "ok" /\ view'.transactions_count = n]_vars

(***************************************************************************)
(* C18: two runs with the same record set, budgets, date range, weekly     *)
(* budget and anomaly sensitivity produce identical output in every field  *)
(* (burn rate and behaviour class included), whenever each run is made:    *)
(* a rerun over an unchanged store with unchanged widgets and a picked     *)
(* date range shows what the run before it showed.                         *)
(***************************************************************************)
\* what a run shows, without its readings of the clock
Output(v) == [v EXCEPT !.now = 0, !.current_week_start = 0, !.current_week_end = 0]

C18_SameInputsSameOutput ==
    [][(/\ view.status = "ok" /\ view'.status = "ok"
        /\ sheets' = sheets
        /\ sidebar' = sidebar
        /\ sidebar.date_preset = "Custom") => Output(view') = Output(view)]_vars

C20_MovingAverage ==
    Shown =>
        LET dates == SortedSeq(StoreDates(view.start, view.end))
            agg == view.daily_agg
        IN  /\ Len(agg) = Len(dates)
            /\ \A i \in DOMAIN agg :
                  LET lo == Max2(1, i - 6)
                      sum == SumSeq([k \in 1..(i - lo + 1) |->
                                 StoreSpend(dates[lo + k - 1], dates[lo + k - 1])])
                  IN  /\ ~IsNaN(agg[i].moving_avg)
                      /\ agg[i].moving_avg.num * (i - lo + 1) = sum * agg[i].moving_avg.den

\* more than seven days of records, the first of which the last window has
\* dropped: the last average is not the mean of the whole series
C20_Witness ==
    /\ Shown
    /\ Len(view.daily_agg) > 7
    /\ view.daily_agg[1].total = 50
    /\ \A i \in 2..Len(view.daily_agg) : view.daily_agg[i].total = 10
    /\ view.daily_agg[Len(view.daily_agg)].moving_avg.num
           = 10 * view.daily_agg[Len(view.daily_agg)].moving_avg.den

(***************************************************************************)
(* C21: if reading the existing rows fails with an API error during a      *)
(* save, the rows that were in the worksheet before the save are still in  *)
(* it after the save completes.                                            *)
(***************************************************************************)
\* a save, on any of the three pages, whose get_all_records() raises APIError
SaveAfterFailedRead ==
    \/ \E d \in Days, e \in FormEntries : SaveRow("daily_expenses", ExpenseRow(d, e), FALSE)
    \/ \E d \in Days, b \in FormBudgets : SaveRow("weekly_budget", WeeklyBudgetRow(d, b), FALSE)
    \/ \E d \in Days, b \in FormBudgets : SaveRow("daily_budget", DailyBudgetRow(d, b), FALSE)

C21_FailedReadKeepsRows ==
    [][SaveAfterFailedRead =>
          \A t \in tables :
              \A i \in DOMAIN sheets[t] :
                  \E j \in DOMAIN sheets'[t] : sheets'[t][j] = sheets[t][i]]_vars

(***************************************************************************)
(* C22: when two sessions save to the same worksheet concurrently, each    *)
(* running read-all-rows, clear, write-all-rows as separate steps, then    *)
(* after both finish the worksheet holds all rows it held before plus both *)
(* new rows, for every interleaving of the steps.                          *)
(***************************************************************************)
\* the row session s has added to what it read
NewRow(s) == sessions[s].df_updated[Len(sessions[s].df_updated)]

C22_ConcurrentSavesKeepRows ==
    \A s1, s2 \in Sessions :
        /\ s1 # s2
        /\ sessions[s1].pc = "saved" /\ sessions[s2].pc = "saved"
        /\ sessions[s1].table = sessions[s2].table
        => LET before == SessionSheets[sessions[s1].table]
           IN  sheets[sessions[s1].table]
                   \in {before \o <<NewRow(s1), NewRow(s2)>>,
                        before \o <<NewRow(s2), NewRow(s1)>>}

(***************************************************************************)
(* C23: generate_insights returns a 'budget' insight (the Budget Alert     *)
(* with a daily limit) whenever burn_rate > 100 and at least one day       *)
(* remains in the week -- and from Monday to Sunday at least one of the    *)
(* week's seven days remains.                                              *)
(***************************************************************************)
C23_BudgetAlertOverBudget ==
    (Shown /\ view.burn_rate.num > 100 * view.burn_rate.den /\ 7 - weekday(view.now) > 0)
        => \E i \in DOMAIN view.insights : view.insights[i].type = "budget"

(***************************************************************************)
(* C24: with the auto-refresh option checked and data present, two         *)
(* consecutive reruns triggered by it are at least 5 minutes (300 s)       *)
(* apart; the script does not rerun immediately at the end of each run.    *)
(***************************************************************************)
C24_AutoRefreshEveryFiveMinutes ==
    (Shown /\ refresh.trigger = "auto_refresh" /\ refresh.previous = "auto_refresh")
        => refresh.elapsed >= 5 * 60

(***************************************************************************)
(* C25: the rows stored in the weekly_budget and daily_budget tables do    *)
(* not affect any derived metric -- two stores that differ only in their   *)
(* budget rows give the same burn rate, behaviour class, insights and      *)
(* anomalies for the same expenses, date range and sidebar weekly budget.  *)
(* The page shown is compared with a run over the store without its budget *)
(* rows.                                                                   *)
(***************************************************************************)
WithoutBudgets == [sheets EXCEPT !["weekly_budget"] = <<>>, !["daily_budget"] = <<>>]

C25_BudgetRowsIgnored ==
    Shown =>
        LET alone == Script(load_data(WithoutBudgets, view.start, view.end),
                            sidebar, today, float_bits)
        IN  /\ alone.status = "ok"
            /\ view.burn_rate = alone.burn_rate
            /\ view.behavior = alone.behavior
            /\ view.insights = alone.insights
            /\ view.anomalies = alone.anomalies

\* a page over a store whose weekly_budget worksheet holds a budget other
\* than the sidebar's, with money spent this week
C25_Witness ==
    /\ Shown
    /\ sheets["weekly_budget"] # <<>>
    /\ sheets["weekly_budget"][1].weekly_budget # view.weekly_budget
    /\ view.weekly_budget > 0
    /\ view.weekly_spend > 0

====
